---- MODULE Spec2Model ----
(***************************************************************************)
(* base_event_handler (src/server/src/core/base_event_handler.cpp): the    *)
(* Pending Buffer (records_) with its scheduled drain, the Addition Job    *)
(* Queue (addition_jobs_) with the worker thread that flushes it, the      *)
(* mutex mtx_ and condition variable cv_, and the direct path operations.  *)
(* Caller threads and the worker are interleaved one source statement (or  *)
(* one critical section part) at a time.                                   *)
(***************************************************************************)
EXTENDS Integers, Sequences, FiniteSets, TLC

VARIABLES
    records_,          \* std::deque<file_record> records_: the Pending Buffer
    addition_jobs_,    \* std::queue<file_record> addition_jobs_
    should_stop_,      \* bool should_stop_
    mtx_,              \* owner of std::mutex mtx_, or Free
    interval_elapsed,  \* steady_clock::now() - last_addition_time_ >= batch_interval_
    wpc,               \* where the worker thread is in worker_loop / eat_jobs
    wloc,              \* eat_jobs' locals batch_size and i; and, kept for stating
                       \* properties only, how long addition_jobs_ and
                       \* immediate_log were when eat_jobs was entered
    joined,            \* worker_ has been joined (worker_.joinable() is false)
    pc,                \* where each caller thread is
    loc,               \* each caller's locals and arguments
    ret,               \* each caller's last returned value
    docs,              \* index_manager_: paths for which document_exists is true
    delayed_log,       \* index_manager_: records received by add_index_delay, in order
    immediate_log,     \* index_manager_: records received by add_index, in order
    deletion_jobs_,    \* index_manager_: terms received by remove_index_delay, not yet processed
    deletion_log,      \* index_manager_: terms process_deletion_jobs has processed, in order
    mnt_,              \* mnt_manager_: the mount snapshot
    nextId,            \* identity of the next file_record the environment produces
    health             \* "ok", "ub" (undefined behaviour happened, still running) or "crashed"

vars == <<records_, addition_jobs_, should_stop_, mtx_, interval_elapsed, wpc, wloc,
          joined, pc, loc, ret, docs, delayed_log, immediate_log, deletion_jobs_,
          deletion_log, mnt_, nextId, health>>

-----------------------------------------------------------------------------
(* Bounds of the model *)

\* caller threads besides the worker
NumCallers == 2
\* distinct paths
NumPaths == 2
\* distinct device ids
NumDevices == 1
\* records the environment produces in the Pending Buffer runs
MaxPendingIds == 601
\* records the environment produces in the Addition Job Queue runs
MaxQueueIds == 102
\* records the environment produces in the runs with racing callers
MaxRaceIds == 3
\* terms handed to remove_index_delay in one run
MaxRemovals == 2
\* records pushed after the start in the runs checked for progress
MaxLiveIds == 3
\* records the two lanes receive together in the runs checked for ordering
MaxOrderIds == 5
\* records created in the runs in which a caller uses every operation
MaxSurfaceIds == 5
\* records created in the runs in which callers use every operation that locks
MaxLockedIds == 2
\* records created in the runs checked for callers that block on the mutex
MaxBlockIds == 1
\* records in the smaller of the two deques the watcher inserts in the Pending Buffer runs
PendingChunk == 300
\* records in the deque the watcher inserts in the runs with racing callers
RaceChunk == 2

(* Program constants *)

\* size_t(500) in run_scheduled_task
ScheduledBatch == 500
\* batch_size_ = 100 in the constructor
batch_size_ == 100

Callers == 1..NumCallers
Paths == 1..NumPaths
Devices == 1..NumDevices
Worker == 0
Free == -1

Min(a, b) == IF a < b THEN a ELSE b

\* the batch size without the cap of 500: the whole buffer
ScheduledBatchSize_uncapped(n) == n

\* std::min(size_t(500), records_.size())
ScheduledBatchSize(n) == Min(ScheduledBatch, n)

\* the flush size without the cap of batch_size_: the whole queue
FlushBatchSize_uncapped(n) == n

\* std::min(batch_size_, addition_jobs_.size())
FlushBatchSize(n) == Min(batch_size_, n)

-----------------------------------------------------------------------------
(* file_record values *)

\* the path of the record with identity id that the watcher produces
InputPath(id) == (id % NumPaths) + 1

\* moved: the record has been moved from (std::move) and still sits in its slot
Record(id, p) == [id |-> id, path |-> p, moved |-> FALSE]

\* a file_record whose content is gone (moved away), and what front() of an
\* empty deque yields when the program keeps running
Husk == [id |-> 0, path |-> 0, moved |-> FALSE]

\* the deque the watcher hands to insert_pending_records: k fresh records
NewRecords(first, k) == [j \in 1..k |-> Record(first + j - 1, InputPath(first + j - 1))]

\* std::move(records_.front()) leaves the front slot moved-from
MovedFrom(r) == [r EXCEPT !.moved = TRUE]

\* what a move out of slot r hands over: the record, or, from a slot that was
\* moved from before (valid but unspecified), the record still or an emptied one
MoveOut(r) == IF r.moved THEN {[r EXCEPT !.moved = FALSE], Husk} ELSE {r}

\* a caller's locals: batch_size and i of run_scheduled_task, the argument and
\* the record of the call; and, kept for stating properties only, how long
\* records_ and delayed_log were when run_scheduled_task was entered
\* a mutation: the record at the back of the deque
front_back(q) == q[Len(q)]
\* std::deque::front(): the record at the front of a deque that holds one
front(q) == Head(q)

NoLoc == [batch |-> 0, i |-> 0, arg |-> 0, rec |-> Husk, held |-> 0, logged |-> 0]
NoRet == [op |-> "none", val |-> "none", n |-> 0]
NoWloc == [batch |-> 0, i |-> 0, held |-> 0, logged |-> 0]
Bool(b) == IF b THEN "true" ELSE "false"

-----------------------------------------------------------------------------
(* index_manager_ and mnt_manager_, the collaborators *)

\* index_manager_.deletion_jobs_ready()
DeletionBatch == 2
deletion_jobs_ready == Len(deletion_jobs_) >= DeletionBatch

\* index_manager_.document_exists(path)
document_exists(p) == p \in docs

RangeOf(s) == {s[j] : j \in 1..Len(s)}

MountStates == [dlnfs : SUBSET Paths, devs : SUBSET Devices]

\* mnt_manager_.path_match_type(path, "fuse.dlnfs")
path_match_type(p) == p \in mnt_.dlnfs

-----------------------------------------------------------------------------
(* Initial state: after the constructor, lines 8-21 *)

Init ==
    /\ records_ = <<>>
    /\ addition_jobs_ = <<>>
    /\ should_stop_ = FALSE
    /\ mtx_ = Free
    /\ interval_elapsed \in BOOLEAN
    /\ wpc = "lock"
    /\ wloc = NoWloc
    /\ joined = FALSE
    /\ pc = [t \in Callers |-> "idle"]
    /\ loc = [t \in Callers |-> NoLoc]
    /\ ret = [t \in Callers |-> NoRet]
    /\ docs = {}
    /\ delayed_log = <<>>
    /\ immediate_log = <<>>
    /\ deletion_jobs_ = <<>>
    /\ deletion_log = <<>>
    /\ mnt_ \in MountStates
    /\ nextId = 1
    /\ health = "ok"

\* the variables of the engine other than the caller's own position
engineVars == <<records_, addition_jobs_, should_stop_, mtx_, interval_elapsed, wpc, wloc,
                joined, docs, delayed_log, immediate_log, deletion_jobs_, deletion_log,
                mnt_, health>>
storeVars == <<docs, delayed_log, immediate_log, deletion_jobs_, deletion_log>>
workerVars == <<wpc, wloc, joined, interval_elapsed>>

\* cv_.notify_one(): the worker, if it is blocked in wait_for, is woken
notify_one == IF wpc = "waiting" THEN "woken" ELSE wpc

Goto(t, p) == pc' = [pc EXCEPT ![t] = p]

\* the process is brought down: no thread takes another step
Crashed ==
    /\ health' = "crashed"
    /\ pc' = [u \in Callers |-> "crashed"]
    /\ wpc' = "crashed"
Return(t, op, val, n) ==
    /\ pc' = [pc EXCEPT ![t] = "idle"]
    /\ loc' = [loc EXCEPT ![t] = NoLoc]
    /\ ret' = [ret EXCEPT ![t] = [op |-> op, val |-> val, n |-> n]]

-----------------------------------------------------------------------------
(* The Pending Buffer: insert_pending_records, record_size, run_scheduled_task *)

\* positions at which a caller reads or writes records_ without holding mtx_
RecordsPcs == {"insert_pending_records", "record_size", "rst_empty", "rst_size", "rst_pop"}

\* another caller is inside an unsynchronized access to records_: a data race
Racing(t) == \E u \in Callers \ {t} : pc[u] \in RecordsPcs \cup {"rst_fwd"}

\* a write to records_ that races either goes through or brings the process down
RaceOutcomes(t) == IF Racing(t) THEN {health, "crashed"} ELSE {health}

\* line 72: a caller enters insert_pending_records with a deque of k fresh records
CallInsertPending(t, k, cap) ==
    /\ pc[t] = "idle"
    /\ nextId + k - 1 <= cap
    /\ Goto(t, "insert_pending_records")
    /\ loc' = [loc EXCEPT ![t] = [NoLoc EXCEPT !.arg = k, !.rec = Record(nextId, InputPath(nextId))]]
    /\ nextId' = nextId + k
    /\ UNCHANGED <<ret, engineVars>>

\* lines 74-76: records_.insert(records_.end(), ...), no lock taken
insert_pending_records(t) ==
    /\ pc[t] = "insert_pending_records"
    /\ \E h \in RaceOutcomes(t) :
        IF h = "crashed"
        THEN Crashed /\ UNCHANGED <<records_, loc, ret>>
        ELSE /\ records_' = records_ \o NewRecords(loc[t].rec.id, loc[t].arg)
             /\ Return(t, "insert_pending_records", "void", 0)
             /\ UNCHANGED <<health, wpc>>
    /\ UNCHANGED <<addition_jobs_, should_stop_, mtx_, wloc, joined, interval_elapsed,
                   storeVars, mnt_, nextId>>

\* line 79
CallRecordSize(t) ==
    /\ pc[t] = "idle"
    /\ Goto(t, "record_size")
    /\ UNCHANGED <<loc, ret, engineVars, nextId>>

\* line 80: return records_.size(), no lock taken
record_size(t) ==
    /\ pc[t] = "record_size"
    /\ Return(t, "record_size", "size", Len(records_))
    /\ UNCHANGED <<engineVars, nextId>>

\* line 40
CallRunScheduledTask(t) ==
    /\ pc[t] = "idle"
    /\ Goto(t, "rst_empty")
    /\ loc' = [loc EXCEPT ![t] = [NoLoc EXCEPT !.held = Len(records_), !.logged = Len(delayed_log)]]
    /\ UNCHANGED <<ret, engineVars, nextId>>

\* line 41: if (!records_.empty()), no lock taken
RstEmpty(t) ==
    /\ pc[t] = "rst_empty"
    /\ Goto(t, IF records_ = <<>> THEN "rst_notify" ELSE "rst_size")
    /\ UNCHANGED <<loc, ret, engineVars, nextId>>

\* lines 42-43: batch_size = std::min(size_t(500), records_.size()); i = 0
RstSize(t) ==
    /\ pc[t] = "rst_size"
    /\ loc' = [loc EXCEPT ![t].batch = ScheduledBatchSize(Len(records_)), ![t].i = 0]
    /\ Goto(t, IF ScheduledBatchSize(Len(records_)) > 0 THEN "rst_lock" ELSE "rst_notify")
    /\ UNCHANGED <<ret, engineVars, nextId>>

\* line 45: std::lock_guard lock(mtx_)
RstLock(t) ==
    /\ pc[t] = "rst_lock"
    /\ mtx_ = Free
    /\ mtx_' = t
    /\ Goto(t, "rst_fwd")
    /\ UNCHANGED <<loc, ret, records_, addition_jobs_, should_stop_, workerVars, storeVars,
                   mnt_, nextId, health>>

\* lines 46-47: index_manager_.add_index_delay(std::move(records_.front())), then
\* the lock_guard's scope ends.  front() of an empty deque is undefined: the
\* process crashes or a garbage record is forwarded.
RstForward(t) ==
    /\ pc[t] = "rst_fwd"
    /\ \E h \in (IF records_ = <<>> THEN {"ub", "crashed"} ELSE {health}) :
        IF h = "crashed"
        THEN Crashed /\ UNCHANGED <<records_, delayed_log, mtx_>>
        ELSE /\ health' = h
             /\ mtx_' = Free
             /\ Goto(t, "rst_pop")
             /\ UNCHANGED wpc
             /\ IF records_ = <<>>
                THEN /\ delayed_log' = Append(delayed_log, Husk)
                     /\ UNCHANGED records_
                ELSE /\ \E r \in MoveOut(front(records_)) :
                           delayed_log' = Append(delayed_log, r)
                     /\ records_' = [records_ EXCEPT ![1] = MovedFrom(@)]
    /\ UNCHANGED <<loc, ret, addition_jobs_, should_stop_, wloc, joined, interval_elapsed,
                   docs, immediate_log, deletion_jobs_, deletion_log, mnt_, nextId>>

\* line 48 and the loop step of line 43: records_.pop_front(); ++i, no lock
\* taken.  pop_front() of an empty deque is undefined: the process crashes or
\* keeps running on a broken deque.
RstPop(t) ==
    /\ pc[t] = "rst_pop"
    /\ \E h \in (IF records_ = <<>> THEN {"ub", "crashed"} ELSE RaceOutcomes(t)) :
        IF h = "crashed"
        THEN Crashed /\ UNCHANGED <<records_, loc>>
        ELSE /\ health' = h
             /\ records_' = IF records_ = <<>> THEN <<>> ELSE Tail(records_)
             /\ loc' = [loc EXCEPT ![t].i = @ + 1]
             /\ Goto(t, IF loc[t].i + 1 < loc[t].batch THEN "rst_lock" ELSE "rst_notify")
             /\ UNCHANGED wpc
    /\ UNCHANGED <<ret, addition_jobs_, should_stop_, mtx_, wloc, joined, interval_elapsed,
                   storeVars, mnt_, nextId>>

\* line 52: cv_.notify_one()
RstNotify(t) ==
    /\ pc[t] = "rst_notify"
    /\ wpc' = notify_one
    /\ Return(t, "run_scheduled_task", "void", 0)
    /\ UNCHANGED <<records_, addition_jobs_, should_stop_, mtx_, wloc, joined, interval_elapsed,
                   storeVars, mnt_, nextId, health>>

run_scheduled_task(t) ==
    \/ RstEmpty(t)
    \/ RstSize(t)
    \/ RstLock(t)
    \/ RstForward(t)
    \/ RstPop(t)
    \/ RstNotify(t)

-----------------------------------------------------------------------------
(* The worker thread: worker_loop and eat_jobs, lines 125-160 *)

\* the predicate without the test of should_stop_
WakeCondition_nostop ==
    \/ Len(addition_jobs_) > batch_size_
    \/ deletion_jobs_ready

\* the predicate handed to cv_.wait_for, lines 131-133
WakeCondition ==
    \/ Len(addition_jobs_) > batch_size_
    \/ deletion_jobs_ready
    \/ should_stop_

\* the flush condition without the test of the elapsed time
FlushCondition_threshold_only == Len(addition_jobs_) > batch_size_

\* the flush condition of eat_jobs, lines 146-147
FlushCondition ==
    \/ Len(addition_jobs_) > batch_size_
    \/ interval_elapsed

\* index_manager_.add_index(record): the record is in the index at once
add_index(r) ==
    /\ docs' = docs \cup {r.path}
    /\ immediate_log' = Append(immediate_log, r)

\* index_manager_.process_deletion_jobs(): the queued terms leave the index
process_deletion_jobs ==
    /\ docs' = docs \ RangeOf(deletion_jobs_)
    /\ deletion_log' = deletion_log \o deletion_jobs_
    /\ deletion_jobs_' = <<>>

\* a mutation: eat_jobs is entered without mtx_
WaitEnter_unlocked ==
    /\ wpc \in {"lock", "woken"}
    /\ IF WakeCondition
       THEN IF should_stop_
            THEN wpc' = "done"
            ELSE wpc' = "eat"
       ELSE wpc' = "waiting"
    /\ UNCHANGED <<records_, addition_jobs_, should_stop_, mtx_, interval_elapsed, wloc,
                   joined, pc, loc, ret, storeVars, mnt_, nextId, health>>
\* lines 129-138: std::unique_lock lock(mtx_), then wait_for tests the predicate
\* with the lock held: true and should_stop_ -> break (the lock is released);
\* true -> eat_jobs; false -> the lock is released and the thread blocks.
\* The same happens when a notified (or spuriously woken) thread has the lock back.
WaitEnter ==
    /\ wpc \in {"lock", "woken"}
    /\ mtx_ = Free
    /\ IF WakeCondition
       THEN IF should_stop_
            THEN wpc' = "done" /\ UNCHANGED mtx_
            ELSE wpc' = "eat" /\ mtx_' = Worker
       ELSE wpc' = "waiting" /\ UNCHANGED mtx_
    /\ UNCHANGED <<records_, addition_jobs_, should_stop_, interval_elapsed, wloc, joined,
                   pc, loc, ret, storeVars, mnt_, nextId, health>>

\* a spurious wake-up of the blocked thread
WaitSpurious ==
    /\ wpc = "waiting"
    /\ wpc' = "woken"
    /\ UNCHANGED <<records_, addition_jobs_, should_stop_, mtx_, interval_elapsed, wloc, joined,
                   pc, loc, ret, storeVars, mnt_, nextId, health>>

\* line 126: the 1000 ms timeout of wait_for expires
WaitTimeout ==
    /\ wpc = "waiting"
    /\ wpc' = "timedout"
    /\ UNCHANGED <<records_, addition_jobs_, should_stop_, mtx_, interval_elapsed, wloc, joined,
                   pc, loc, ret, storeVars, mnt_, nextId, health>>

\* a mutation: after a timeout eat_jobs runs although stop was requested
WaitTimedOut_eating ==
    /\ wpc = "timedout"
    /\ mtx_ = Free
    /\ wpc' = "eat"
    /\ mtx_' = Worker
    /\ UNCHANGED <<records_, addition_jobs_, should_stop_, interval_elapsed, wloc, joined,
                   pc, loc, ret, storeVars, mnt_, nextId, health>>
\* lines 130-141 after a timeout: the lock is taken back and wait_for returns
\* the predicate's value; only true with should_stop_ breaks, anything else
\* goes on to eat_jobs
WaitTimedOut ==
    /\ wpc = "timedout"
    /\ mtx_ = Free
    /\ IF WakeCondition /\ should_stop_
       THEN wpc' = "done" /\ UNCHANGED mtx_
       ELSE wpc' = "eat" /\ mtx_' = Worker
    /\ UNCHANGED <<records_, addition_jobs_, should_stop_, interval_elapsed, wloc, joined,
                   pc, loc, ret, storeVars, mnt_, nextId, health>>

\* lines 146-148
EatTest ==
    /\ wpc = "eat"
    /\ wloc' = [batch |-> IF FlushCondition THEN FlushBatchSize(Len(addition_jobs_)) ELSE 0,
                i |-> 0,
                held |-> Len(addition_jobs_),
                logged |-> Len(immediate_log)]
    /\ wpc' = IF FlushCondition THEN "flush" ELSE "deletion"
    /\ UNCHANGED <<records_, addition_jobs_, should_stop_, mtx_, interval_elapsed, joined,
                   pc, loc, ret, storeVars, mnt_, nextId, health>>

\* lines 149-154: one round of the loop, or after it last_addition_time_ = now()
EatFlush ==
    /\ wpc = "flush"
    /\ IF wloc.i < wloc.batch
       THEN /\ add_index(front(addition_jobs_))
            /\ addition_jobs_' = Tail(addition_jobs_)
            /\ wloc' = [wloc EXCEPT !.i = @ + 1]
            /\ UNCHANGED <<wpc, interval_elapsed>>
       ELSE /\ interval_elapsed' = FALSE
            /\ wpc' = "deletion"
            /\ UNCHANGED <<wloc, addition_jobs_, docs, immediate_log>>
    /\ UNCHANGED <<records_, should_stop_, mtx_, joined, pc, loc, ret, delayed_log,
                   deletion_jobs_, deletion_log, mnt_, nextId, health>>

\* a mutation: the deletion jobs are processed only in a cycle that flushed
EatDeletion_after_flush ==
    /\ wpc = "deletion"
    /\ IF deletion_jobs_ready /\ wloc.batch > 0
       THEN process_deletion_jobs
       ELSE UNCHANGED <<docs, deletion_log, deletion_jobs_>>
    /\ mtx_' = Free
    /\ wpc' = "lock"
    /\ wloc' = NoWloc
    /\ UNCHANGED <<records_, addition_jobs_, should_stop_, interval_elapsed, joined,
                   pc, loc, ret, delayed_log, immediate_log, mnt_, nextId, health>>
\* lines 157-159, then the end of the loop body releases the unique_lock
EatDeletion ==
    /\ wpc = "deletion"
    /\ IF deletion_jobs_ready
       THEN process_deletion_jobs
       ELSE UNCHANGED <<docs, deletion_log, deletion_jobs_>>
    /\ mtx_' = Free
    /\ wpc' = "lock"
    /\ wloc' = NoWloc
    /\ UNCHANGED <<records_, addition_jobs_, should_stop_, interval_elapsed, joined,
                   pc, loc, ret, delayed_log, immediate_log, mnt_, nextId, health>>

eat_jobs == EatTest \/ EatFlush \/ EatDeletion

worker_loop == WaitEnter \/ WaitSpurious \/ WaitTimeout \/ WaitTimedOut \/ eat_jobs

\* time passes: batch_interval_ has gone by since last_addition_time_
Tick ==
    /\ ~interval_elapsed
    /\ interval_elapsed' = TRUE
    /\ UNCHANGED <<records_, addition_jobs_, should_stop_, mtx_, wpc, wloc, joined,
                   pc, loc, ret, storeVars, mnt_, nextId, health>>

-----------------------------------------------------------------------------
(* terminate_processing, lines 25-38 *)

CallTerminate(t) ==
    /\ pc[t] = "idle"
    /\ Goto(t, "tp_lock")
    /\ UNCHANGED <<loc, ret, engineVars, nextId>>

\* line 27
TpLock(t) ==
    /\ pc[t] = "tp_lock"
    /\ mtx_ = Free
    /\ mtx_' = t
    /\ Goto(t, "tp_set")
    /\ UNCHANGED <<loc, ret, records_, addition_jobs_, should_stop_, workerVars, storeVars,
                   mnt_, nextId, health>>

\* lines 28-29: should_stop_ = true, then the lock_guard's scope ends
TpSet(t) ==
    /\ pc[t] = "tp_set"
    /\ should_stop_' = TRUE
    /\ mtx_' = Free
    /\ Goto(t, "tp_notify")
    /\ UNCHANGED <<loc, ret, records_, addition_jobs_, workerVars, storeVars, mnt_, nextId, health>>

\* line 31
TpNotify(t) ==
    /\ pc[t] = "tp_notify"
    /\ wpc' = notify_one
    /\ Goto(t, "tp_joinable")
    /\ UNCHANGED <<loc, ret, records_, addition_jobs_, should_stop_, mtx_, wloc, joined,
                   interval_elapsed, storeVars, mnt_, nextId, health>>

\* line 33: if (worker_.joinable())
TpJoinable(t) ==
    /\ pc[t] = "tp_joinable"
    /\ IF joined
       THEN Return(t, "terminate_processing", "void", 0)
       ELSE Goto(t, "tp_join") /\ UNCHANGED <<loc, ret>>
    /\ UNCHANGED <<engineVars, nextId>>

\* join() that returns although the worker thread is still running
TpJoin_nowait(t) ==
    /\ pc[t] = "tp_join"
    /\ ~joined
    /\ joined' = TRUE
    /\ Return(t, "terminate_processing", "void", 0)
    /\ UNCHANGED <<records_, addition_jobs_, should_stop_, mtx_, wpc, wloc, interval_elapsed,
                   storeVars, mnt_, nextId, health>>

\* lines 34-37: worker_.join() blocks until the worker thread has exited.  Two
\* callers that both found the thread joinable both call join(): the second
\* call is on a thread that is no longer joinable, std::system_error is thrown
\* and nothing catches it.
TpJoin(t) ==
    /\ pc[t] = "tp_join"
    /\ IF joined
       THEN Crashed /\ UNCHANGED <<joined, loc, ret>>
       ELSE /\ wpc = "done"
            /\ joined' = TRUE
            /\ Return(t, "terminate_processing", "void", 0)
            /\ UNCHANGED <<health, wpc>>
    /\ UNCHANGED <<records_, addition_jobs_, should_stop_, mtx_, wloc, interval_elapsed,
                   storeVars, mnt_, nextId>>

terminate_processing(t) ==
    \/ TpLock(t)
    \/ TpSet(t)
    \/ TpNotify(t)
    \/ TpJoinable(t)
    \/ TpJoin(t)

-----------------------------------------------------------------------------
(* Operations whose whole body runs under std::lock_guard lock(mtx_) *)

\* the position after the lock_guard of lines 101, 106, 118, 169, 177, 183, 191
AfterLock(p) ==
    CASE p = "sicf_lock" -> "set_index_change_filter"
      [] p = "aid_lock" -> "add_index_delay"
      [] p = "rid_lock" -> "remove_index_delay"
      [] p = "search_lock" -> "search_store"
      [] p = "rp_lock" -> "removePath"
      [] p = "has_lock" -> "hasLFT"
      [] p = "ap_lock" -> "addPath_store"

LockPcs == {"sicf_lock", "aid_lock", "rid_lock", "search_lock", "rp_lock", "has_lock", "ap_lock"}

\* std::lock_guard<std::mutex> lock(mtx_): blocks until the mutex is free
lock_guard(t) ==
    /\ pc[t] \in LockPcs
    /\ mtx_ = Free
    /\ mtx_' = t
    /\ Goto(t, AfterLock(pc[t]))
    /\ UNCHANGED <<loc, ret, records_, addition_jobs_, should_stop_, workerVars, storeVars,
                   mnt_, nextId, health>>

\* line 99
CallSetIndexChangeFilter(t) ==
    /\ pc[t] = "idle"
    /\ Goto(t, "sicf_lock")
    /\ UNCHANGED <<loc, ret, engineVars, nextId>>

\* lines 102-103: the filter is handed to the store, the lock is released
set_index_change_filter(t) ==
    /\ pc[t] = "set_index_change_filter"
    /\ mtx_' = Free
    /\ Return(t, "set_index_change_filter", "void", 0)
    /\ UNCHANGED <<records_, addition_jobs_, should_stop_, workerVars, storeVars, mnt_,
                   nextId, health>>

\* line 105: a caller enters add_index_delay with a fresh record
CallAddIndexDelay(t, cap) ==
    /\ pc[t] = "idle"
    /\ nextId <= cap
    /\ Goto(t, "aid_lock")
    /\ loc' = [loc EXCEPT ![t] = [NoLoc EXCEPT !.rec = Record(nextId, InputPath(nextId))]]
    /\ nextId' = nextId + 1
    /\ UNCHANGED <<ret, engineVars>>

\* lines 107-110: push, notify when the queue is longer than batch_size_, unlock
add_index_delay(t) ==
    /\ pc[t] = "add_index_delay"
    /\ addition_jobs_' = Append(addition_jobs_, loc[t].rec)
    /\ wpc' = IF Len(addition_jobs_) + 1 > batch_size_ THEN notify_one ELSE wpc
    /\ mtx_' = Free
    /\ Return(t, "add_index_delay", "void", 0)
    /\ UNCHANGED <<records_, should_stop_, wloc, joined, interval_elapsed, storeVars, mnt_,
                   nextId, health>>

\* terms handed to remove_index_delay so far, the calls under way included
RemovalsSoFar ==
    Len(deletion_jobs_) + Len(deletion_log)
        + Cardinality({u \in Callers : pc[u] \in {"rid_lock", "remove_index_delay"}})

\* line 117
CallRemoveIndexDelay(t, term) ==
    /\ pc[t] = "idle"
    /\ RemovalsSoFar < MaxRemovals
    /\ Goto(t, "rid_lock")
    /\ loc' = [loc EXCEPT ![t] = [NoLoc EXCEPT !.arg = term]]
    /\ UNCHANGED <<ret, engineVars, nextId>>

\* lines 119-122: the store queues the term; notify when it reports
\* deletion_jobs_ready(); unlock
remove_index_delay(t) ==
    /\ pc[t] = "remove_index_delay"
    /\ deletion_jobs_' = Append(deletion_jobs_, loc[t].arg)
    /\ wpc' = IF Len(deletion_jobs_) + 1 >= DeletionBatch THEN notify_one ELSE wpc
    /\ mtx_' = Free
    /\ Return(t, "remove_index_delay", "void", 0)
    /\ UNCHANGED <<records_, addition_jobs_, should_stop_, wloc, joined, interval_elapsed,
                   docs, delayed_log, immediate_log, deletion_log, mnt_, nextId, health>>

\* line 162
CallSearch(t, offset) ==
    /\ pc[t] = "idle"
    /\ Goto(t, "search")
    /\ loc' = [loc EXCEPT ![t] = [NoLoc EXCEPT !.arg = offset]]
    /\ UNCHANGED <<ret, engineVars, nextId>>

\* a mutation: the offset is not tested
search_unchecked(t) ==
    /\ pc[t] = "search"
    /\ Goto(t, "search_lock")
    /\ UNCHANGED <<loc, ret, engineVars, nextId>>
\* lines 165-167: if (offset < 0) return {}
search(t) ==
    /\ pc[t] = "search"
    /\ IF loc[t].arg < 0
       THEN Return(t, "search", "empty", 0)
       ELSE Goto(t, "search_lock") /\ UNCHANGED <<loc, ret>>
    /\ UNCHANGED <<engineVars, nextId>>

\* line 170: return index_manager_.search(...), unlock
search_store(t) ==
    /\ pc[t] = "search_store"
    /\ mtx_' = Free
    /\ Return(t, "search", "results", Cardinality(docs))
    /\ UNCHANGED <<records_, addition_jobs_, should_stop_, workerVars, storeVars, mnt_,
                   nextId, health>>

\* line 174
CallRemovePath(t, p) ==
    /\ pc[t] = "idle"
    /\ Goto(t, "rp_lock")
    /\ loc' = [loc EXCEPT ![t] = [NoLoc EXCEPT !.arg = p]]
    /\ UNCHANGED <<ret, engineVars, nextId>>

\* a mutation: the removal is not issued
removePath_keeping(t) ==
    /\ pc[t] = "removePath"
    /\ mtx_' = Free
    /\ Return(t, "removePath", Bool(loc[t].arg \notin docs), 0)
    /\ UNCHANGED <<records_, addition_jobs_, should_stop_, workerVars, storeVars, mnt_,
                   nextId, health>>
\* lines 178-179: index_manager_.remove_index(path);
\* return !index_manager_.document_exists(path); unlock
removePath(t) ==
    /\ pc[t] = "removePath"
    /\ docs' = docs \ {loc[t].arg}
    /\ mtx_' = Free
    /\ Return(t, "removePath", Bool(loc[t].arg \notin docs'), 0)
    /\ UNCHANGED <<records_, addition_jobs_, should_stop_, workerVars, delayed_log,
                   immediate_log, deletion_jobs_, deletion_log, mnt_, nextId, health>>

\* line 182
CallHasLFT(t, p) ==
    /\ pc[t] = "idle"
    /\ Goto(t, "has_lock")
    /\ loc' = [loc EXCEPT ![t] = [NoLoc EXCEPT !.arg = p]]
    /\ UNCHANGED <<ret, engineVars, nextId>>

\* a mutation: the lock is not released at the return
hasLFT_holding(t) ==
    /\ pc[t] = "hasLFT"
    /\ Return(t, "hasLFT", Bool(document_exists(loc[t].arg)), 0)
    /\ UNCHANGED <<engineVars, nextId>>
\* line 184: return index_manager_.document_exists(path), unlock
hasLFT(t) ==
    /\ pc[t] = "hasLFT"
    /\ mtx_' = Free
    /\ Return(t, "hasLFT", Bool(document_exists(loc[t].arg)), 0)
    /\ UNCHANGED <<records_, addition_jobs_, should_stop_, workerVars, storeVars, mnt_,
                   nextId, health>>

\* line 187
CallAddPath(t, p, cap) ==
    /\ pc[t] = "idle"
    /\ nextId <= cap
    /\ Goto(t, "addPath")
    /\ loc' = [loc EXCEPT ![t] = [NoLoc EXCEPT !.arg = p]]
    /\ UNCHANGED <<ret, engineVars, nextId>>

\* a mutation: a record that could not be generated is handed to the store all
\* the same
addPath_forwarding(t) ==
    /\ pc[t] = "addPath"
    /\ \E generated \in BOOLEAN :
        IF generated
        THEN /\ Goto(t, "ap_lock")
             /\ loc' = [loc EXCEPT ![t].rec = Record(nextId, loc[t].arg)]
             /\ nextId' = nextId + 1
             /\ UNCHANGED <<ret, delayed_log>>
        ELSE /\ Return(t, "addPath", "false", 0)
             /\ delayed_log' = Append(delayed_log, Husk)
             /\ UNCHANGED nextId
    /\ UNCHANGED <<records_, addition_jobs_, should_stop_, mtx_, workerVars, docs,
                   immediate_log, deletion_jobs_, deletion_log, mnt_, health>>
\* lines 189-190 and 196: generate_file_record(path) yields a record or nothing;
\* with nothing, return false
addPath(t) ==
    /\ pc[t] = "addPath"
    /\ \E generated \in BOOLEAN :
        IF generated
        THEN /\ Goto(t, "ap_lock")
             /\ loc' = [loc EXCEPT ![t].rec = Record(nextId, loc[t].arg)]
             /\ nextId' = nextId + 1
             /\ UNCHANGED ret
        ELSE /\ Return(t, "addPath", "false", 0)
             /\ UNCHANGED nextId
    /\ UNCHANGED engineVars

\* a mutation: the record is pushed onto addition_jobs_, as add_index_delay
\* does, instead of going to the store
addPath_store_queueing(t) ==
    /\ pc[t] = "addPath_store"
    /\ addition_jobs_' = Append(addition_jobs_, loc[t].rec)
    /\ wpc' = IF Len(addition_jobs_) + 1 > batch_size_ THEN notify_one ELSE wpc
    /\ mtx_' = Free
    /\ Return(t, "addPath", Bool(document_exists(loc[t].arg)), 0)
    /\ UNCHANGED <<records_, should_stop_, wloc, joined, interval_elapsed, storeVars, mnt_,
                   nextId, health>>
\* lines 192-193: index_manager_.add_index_delay(std::move(*record));
\* return index_manager_.document_exists(path); unlock
addPath_store(t) ==
    /\ pc[t] = "addPath_store"
    /\ delayed_log' = Append(delayed_log, loc[t].rec)
    /\ mtx_' = Free
    /\ Return(t, "addPath", Bool(document_exists(loc[t].arg)), 0)
    /\ UNCHANGED <<records_, addition_jobs_, should_stop_, workerVars, docs, immediate_log,
                   deletion_jobs_, deletion_log, mnt_, nextId, health>>

-----------------------------------------------------------------------------
(* Operations that take no lock: lines 55-70 and 83-97 *)

\* the reserved suffix of line 57, one character per element
LongnameSuffix == <<".", "l", "o", "n", "g", "n", "a", "m", "e">>

\* the text of path p: paths with an even number end with the reserved suffix
PathText(p) == IF p % 2 = 0 THEN <<"x">> \o LongnameSuffix ELSE <<"x", ".", "l", "o", "n", "g">>

\* anything::ends_with(path, suffix)
ends_with(s, suffix) ==
    /\ Len(s) >= Len(suffix)
    /\ SubSeq(s, Len(s) - Len(suffix) + 1, Len(s)) = suffix

\* a mutation: the flag of the preceding event is not looked at
IgnoredValue_always_lookup(p, ignored) ==
    IF ends_with(PathText(p), LongnameSuffix)
    THEN TRUE
    ELSE path_match_type(p)
\* the value ignored_event returns, lines 57-69
IgnoredValue(p, ignored) ==
    IF ends_with(PathText(p), LongnameSuffix)
    THEN TRUE
    ELSE IF ~ignored
         THEN path_match_type(p)
         ELSE FALSE

\* line 55
CallIgnoredEvent(t, p, ignored) ==
    /\ pc[t] = "idle"
    /\ Goto(t, "ignored_event")
    /\ loc' = [loc EXCEPT ![t] = [NoLoc EXCEPT !.arg = p, !.i = IF ignored THEN 1 ELSE 0]]
    /\ UNCHANGED <<ret, engineVars, nextId>>

\* lines 57-69, no lock taken
ignored_event(t) ==
    /\ pc[t] = "ignored_event"
    /\ Return(t, "ignored_event", Bool(IgnoredValue(loc[t].arg, loc[t].i = 1)), 0)
    /\ UNCHANGED <<engineVars, nextId>>

\* lines 83, 87, 91, 95
CallMountOp(t, op, device) ==
    /\ pc[t] = "idle"
    /\ op \in {"refresh_mount_status", "device_available", "fetch_mount_point_for_device",
               "get_index_directory"}
    /\ Goto(t, op)
    /\ loc' = [loc EXCEPT ![t] = [NoLoc EXCEPT !.arg = device]]
    /\ UNCHANGED <<ret, engineVars, nextId>>

\* line 84: mnt_manager_.update() reads the mount table again, no lock taken
refresh_mount_status(t) ==
    /\ pc[t] = "refresh_mount_status"
    /\ mnt_' \in MountStates
    /\ Return(t, "refresh_mount_status", "void", 0)
    /\ UNCHANGED <<records_, addition_jobs_, should_stop_, mtx_, workerVars, storeVars,
                   nextId, health>>

\* line 88: return mnt_manager_.contains_device(device_id), no lock taken
device_available(t) ==
    /\ pc[t] = "device_available"
    /\ Return(t, "device_available", Bool(loc[t].arg \in mnt_.devs), 0)
    /\ UNCHANGED <<engineVars, nextId>>

\* line 92: return mnt_manager_.get_mount_point(device_id), no lock taken
fetch_mount_point_for_device(t) ==
    /\ pc[t] = "fetch_mount_point_for_device"
    /\ Return(t, "fetch_mount_point_for_device", "path", IF loc[t].arg \in mnt_.devs THEN loc[t].arg ELSE 0)
    /\ UNCHANGED <<engineVars, nextId>>

\* line 96: return index_manager_.index_directory(), no lock taken
get_index_directory(t) ==
    /\ pc[t] = "get_index_directory"
    /\ Return(t, "get_index_directory", "path", 0)
    /\ UNCHANGED <<engineVars, nextId>>

-----------------------------------------------------------------------------
(* Specifications *)

NoMounts == [dlnfs |-> {}, devs |-> {}]

\* the sizes of the deques the watcher inserts in the Pending Buffer runs
PendingChunks == {PendingChunk, 2 * PendingChunk}

\* One caller thread inserts into the Pending Buffer, reads its size and runs
\* the scheduled task, one call after the other, beside the worker thread.
InitDrain == Init /\ mnt_ = NoMounts

NextDrain ==
    \/ \E k \in PendingChunks : CallInsertPending(1, k, MaxPendingIds)
    \/ insert_pending_records(1)
    \/ CallRecordSize(1)
    \/ record_size(1)
    \/ CallRunScheduledTask(1)
    \/ run_scheduled_task(1)
    \/ worker_loop
    \/ Tick

SpecDrain == InitDrain /\ [][NextDrain]_vars

\* One caller thread runs the scheduled task again and again while a second
\* one inserts into the Pending Buffer, beside the worker thread.
NextPending ==
    \/ CallRunScheduledTask(1)
    \/ run_scheduled_task(1)
    \/ CallInsertPending(2, PendingChunk, MaxPendingIds)
    \/ insert_pending_records(2)
    \/ worker_loop
    \/ Tick

SpecPending == InitDrain /\ [][NextPending]_vars

\* One caller thread pushes addition jobs and terminates the processing, one
\* call after the other, beside the worker; batch_interval_ elapses at any time.
NextWorker ==
    \/ CallAddIndexDelay(1, MaxQueueIds)
    \/ add_index_delay(1)
    \/ lock_guard(1)
    \/ CallTerminate(1)
    \/ terminate_processing(1)
    \/ worker_loop
    \/ Tick

SpecWorker == InitDrain /\ [][NextWorker]_vars

\* One caller thread pushes addition jobs, hands a term to remove_index_delay
\* and terminates the processing, one call after the other, beside the worker;
\* batch_interval_ has elapsed at the start or does not elapse at all.
NextStop ==
    \/ CallAddIndexDelay(1, MaxQueueIds)
    \/ add_index_delay(1)
    \/ CallRemoveIndexDelay(1, 1)
    \/ remove_index_delay(1)
    \/ lock_guard(1)
    \/ CallTerminate(1)
    \/ terminate_processing(1)
    \/ worker_loop

SpecStop == InitDrain /\ [][NextStop]_vars

\* Every caller thread inserts into the Pending Buffer and runs the scheduled
\* task, at the same time as the others and the worker.
NextRace ==
    \/ \E t \in Callers : CallInsertPending(t, RaceChunk, MaxRaceIds)
    \/ \E t \in Callers : insert_pending_records(t)
    \/ \E t \in Callers : CallRunScheduledTask(t)
    \/ \E t \in Callers : run_scheduled_task(t)
    \/ worker_loop
    \/ Tick

SpecRace == InitDrain /\ [][NextRace]_vars

\* Each lane has one client: caller 1 inserts into the Pending Buffer and runs
\* the scheduled task, caller 2 pushes addition jobs, beside the worker thread.
NextOrder ==
    \/ CallInsertPending(1, RaceChunk, MaxOrderIds)
    \/ insert_pending_records(1)
    \/ CallRunScheduledTask(1)
    \/ run_scheduled_task(1)
    \/ CallAddIndexDelay(2, MaxOrderIds)
    \/ lock_guard(2)
    \/ add_index_delay(2)
    \/ worker_loop
    \/ Tick

SpecOrder == InitDrain /\ [][NextOrder]_vars

\* The state in which the caller has pushed batch_size_ - 1 records one after
\* the other before the worker thread took its first step (SpecWorker reaches
\* it: PreQueuedReached)
PreQueued == batch_size_ - 1

InitLive ==
    /\ records_ = <<>>
    /\ addition_jobs_ = NewRecords(1, PreQueued)
    /\ should_stop_ = FALSE
    /\ mtx_ = Free
    /\ interval_elapsed \in BOOLEAN
    /\ wpc = "lock"
    /\ wloc = NoWloc
    /\ joined = FALSE
    /\ pc = [t \in Callers |-> "idle"]
    /\ loc = [t \in Callers |-> NoLoc]
    /\ ret = [t \in Callers |-> IF t = 1 THEN [op |-> "add_index_delay", val |-> "void", n |-> 0]
                                        ELSE NoRet]
    /\ docs = {}
    /\ delayed_log = <<>>
    /\ immediate_log = <<>>
    /\ deletion_jobs_ = <<>>
    /\ deletion_log = <<>>
    /\ mnt_ = NoMounts
    /\ nextId = PreQueued + 1
    /\ health = "ok"

\* the initial state of SpecLive is a state of SpecWorker
PreQueuedReached == ~InitLive

\* From there one caller thread pushes a few more addition jobs, hands a term
\* to remove_index_delay and terminates the processing, beside the worker,
\* batch_interval_ elapsing at any time.  Every
\* thread keeps being scheduled, a thread blocked on mtx_ gets it in the end
\* (strong fairness of the steps that take the lock), time passes, and the
\* 1000 ms timeout of wait_for expires however often the thread is woken
\* before (wait_for waits until a fixed deadline: strong fairness).
NextLive ==
    \/ CallAddIndexDelay(1, PreQueued + MaxLiveIds)
    \/ add_index_delay(1)
    \/ CallRemoveIndexDelay(1, 1)
    \/ remove_index_delay(1)
    \/ lock_guard(1)
    \/ CallTerminate(1)
    \/ terminate_processing(1)
    \/ worker_loop
    \/ Tick

Fairness ==
    /\ SF_vars(WaitEnter)
    /\ SF_vars(WaitTimedOut)
    /\ SF_vars(WaitTimeout)
    /\ WF_vars(eat_jobs)
    /\ WF_vars(Tick)
    /\ SF_vars(TpLock(1))
    /\ WF_vars(TpSet(1) \/ TpNotify(1) \/ TpJoinable(1) \/ TpJoin(1))
    /\ SF_vars(lock_guard(1))
    /\ WF_vars(add_index_delay(1) \/ remove_index_delay(1))

SpecLive == InitLive /\ [][NextLive]_vars /\ Fairness

\* the offsets handed to search
Offsets == {-1, 0}

MountOps == {"refresh_mount_status", "device_available", "fetch_mount_point_for_device",
             "get_index_directory"}

\* One caller thread uses the Pending Buffer, the mount table and the
\* operations that leave the index as it is, one call after the other, beside
\* the worker thread.
NextSurface ==
    \/ CallInsertPending(1, RaceChunk, MaxSurfaceIds)
    \/ insert_pending_records(1)
    \/ CallRecordSize(1)
    \/ record_size(1)
    \/ CallRunScheduledTask(1)
    \/ run_scheduled_task(1)
    \/ \E p \in Paths, ignored \in BOOLEAN : CallIgnoredEvent(1, p, ignored)
    \/ ignored_event(1)
    \/ \E op \in MountOps, d \in Devices : CallMountOp(1, op, d)
    \/ refresh_mount_status(1)
    \/ device_available(1)
    \/ fetch_mount_point_for_device(1)
    \/ get_index_directory(1)
    \/ CallSetIndexChangeFilter(1)
    \/ set_index_change_filter(1)
    \/ \E offset \in Offsets : CallSearch(1, offset)
    \/ search(1)
    \/ search_store(1)
    \/ lock_guard(1)
    \/ worker_loop
    \/ Tick

SpecSurface == InitDrain /\ [][NextSurface]_vars

\* One caller thread adds, removes and looks up paths, pushes addition jobs and
\* inserts into the Pending Buffer, one call after the other, beside the worker
\* thread.
NextPaths ==
    \/ CallInsertPending(1, RaceChunk, MaxSurfaceIds)
    \/ insert_pending_records(1)
    \/ CallAddIndexDelay(1, MaxSurfaceIds)
    \/ add_index_delay(1)
    \/ \E p \in Paths : CallRemovePath(1, p)
    \/ removePath(1)
    \/ \E p \in Paths : CallHasLFT(1, p)
    \/ hasLFT(1)
    \/ \E p \in Paths : CallAddPath(1, p, MaxSurfaceIds)
    \/ addPath(1)
    \/ addPath_store(1)
    \/ lock_guard(1)
    \/ worker_loop
    \/ Tick

SpecPaths == InitDrain /\ [][NextPaths]_vars

\* One caller thread uses every operation that takes mtx_, one call after the
\* other, while a second one looks paths up and fills the Pending Buffer,
\* beside the worker thread.
NextLocked ==
    \/ CallSetIndexChangeFilter(1)
    \/ set_index_change_filter(1)
    \/ CallAddIndexDelay(1, MaxLockedIds)
    \/ add_index_delay(1)
    \/ CallRemoveIndexDelay(1, 1)
    \/ remove_index_delay(1)
    \/ \E offset \in Offsets : CallSearch(1, offset)
    \/ search(1)
    \/ search_store(1)
    \/ \E p \in Paths : CallRemovePath(1, p)
    \/ removePath(1)
    \/ \E p \in Paths : CallAddPath(1, p, MaxLockedIds)
    \/ addPath(1)
    \/ addPath_store(1)
    \/ CallTerminate(1)
    \/ terminate_processing(1)
    \/ lock_guard(1)
    \/ \E p \in Paths : CallHasLFT(2, p)
    \/ lock_guard(2)
    \/ hasLFT(2)
    \/ CallInsertPending(2, RaceChunk, MaxLockedIds)
    \/ insert_pending_records(2)
    \/ worker_loop
    \/ Tick

SpecLocked == InitDrain /\ [][NextLocked]_vars

\* One caller thread uses every operation that takes mtx_ and fills the
\* Pending Buffer, one call after the other, beside the worker thread.
NextBlock ==
    \/ CallSetIndexChangeFilter(1)
    \/ set_index_change_filter(1)
    \/ CallAddIndexDelay(1, MaxBlockIds)
    \/ add_index_delay(1)
    \/ CallRemoveIndexDelay(1, 1)
    \/ remove_index_delay(1)
    \/ \E offset \in Offsets : CallSearch(1, offset)
    \/ search(1)
    \/ search_store(1)
    \/ \E p \in Paths : CallRemovePath(1, p)
    \/ removePath(1)
    \/ \E p \in Paths : CallAddPath(1, p, MaxBlockIds)
    \/ addPath(1)
    \/ addPath_store(1)
    \/ CallTerminate(1)
    \/ terminate_processing(1)
    \/ lock_guard(1)
    \/ \E p \in Paths : CallHasLFT(1, p)
    \/ hasLFT(1)
    \/ CallInsertPending(1, MaxBlockIds, MaxBlockIds)
    \/ insert_pending_records(1)
    \/ CallRunScheduledTask(1)
    \/ run_scheduled_task(1)
    \/ worker_loop
    \/ Tick

\* every thread that can take a step takes one, a std::mutex that is free
\* again and again is handed to every thread that waits for it
FairnessBlock ==
    /\ Fairness
    /\ WF_vars(set_index_change_filter(1) \/ search(1) \/ search_store(1) \/ removePath(1)
                  \/ addPath(1) \/ addPath_store(1) \/ hasLFT(1)
                  \/ insert_pending_records(1) \/ RstEmpty(1) \/ RstSize(1)
                  \/ RstForward(1) \/ RstPop(1) \/ RstNotify(1))
    /\ SF_vars(RstLock(1))

SpecBlock == InitDrain /\ [][NextBlock]_vars /\ FairnessBlock

-----------------------------------------------------------------------------
(* Properties *)

IdsOf(s) == [j \in 1..Len(s) |-> s[j].id]

\* positions inside run_scheduled_task
RstPcs == {"rst_empty", "rst_size", "rst_lock", "rst_fwd", "rst_pop", "rst_notify"}

\* records that insert_pending_records has put into records_ so far
Inserted ==
    nextId - 1 - (IF \E u \in Callers : pc[u] = "insert_pending_records"
                  THEN LET u == CHOOSE v \in Callers : pc[v] = "insert_pending_records"
                       IN loc[u].arg
                  ELSE 0)

\* when the loop of run_scheduled_task is over, the buffer that held n records
\* at the call holds n - min(500, n), min(500, n) more records have been handed
\* to add_index_delay, and what was handed over followed by what is left is
\* what was inserted, in the order of insertion
C1_DrainExact ==
    \A t \in Callers :
        pc[t] = "rst_notify" =>
            LET n == loc[t].held
                m == IF n < ScheduledBatch THEN n ELSE ScheduledBatch
            IN /\ Len(records_) = n - m
               /\ Len(delayed_log) = loc[t].logged + m
               /\ IdsOf(delayed_log) \o IdsOf(records_) = [j \in 1..(nextId - 1) |-> j]

\* records_ gets longer only in a step that completes insert_pending_records
C1_GrowsOnlyByInsert ==
    Len(records_') > Len(records_) =>
        \E t \in Callers : pc[t] = "insert_pending_records" /\ pc'[t] = "idle"

\* C1: with one caller (no other thread touches the Pending Buffer), every
\* run_scheduled_task on a buffer of n records removes exactly min(500, n)
\* records from the front and hands each to add_index_delay, leaving
\* n - min(500, n); and record_size() never grows except by insert_pending_records.
C1_ScheduledDrain == []C1_DrainExact /\ [][C1_GrowsOnlyByInsert]_vars

\* C1 witness: 600 records were inserted, a first call drained 500, and the
\* second call, entered with 100 records, has drained them all
C1_Witness ==
    /\ pc[1] = "rst_notify"
    /\ loc[1].held = 2 * PendingChunk - ScheduledBatch
    /\ loc[1].logged = ScheduledBatch
    /\ records_ = <<>>
    /\ Len(delayed_log) = 2 * PendingChunk

\* C2: whatever insert_pending_records calls and worker cycles are interleaved
\* with it, one invocation of run_scheduled_task hands at most 500 records to
\* add_index_delay and removes at most 500 records from records_.
C2_AtMost500 ==
    \A t \in Callers :
        pc[t] \in RstPcs =>
            /\ Len(delayed_log) - loc[t].logged <= ScheduledBatch
            /\ Inserted - Len(records_) - loc[t].logged <= ScheduledBatch

\* C2 witness: an invocation entered when the buffer held fewer than 500
\* records, during which the second caller inserted, has handed over and
\* removed exactly 500
C2_Witness ==
    /\ pc[1] = "rst_notify"
    /\ loc[1].held < ScheduledBatch
    /\ Len(delayed_log) - loc[1].logged = ScheduledBatch
    /\ Inserted - Len(records_) - loc[1].logged = ScheduledBatch

\* addition jobs the worker has handed to add_index in the cycle under way
FlushedInCycle == Len(immediate_log) - wloc.logged

\* C3: in every cycle of eat_jobs the number of addition jobs handed to
\* add_index is 0 or exactly min(batch_size_, length of addition_jobs_ at the
\* start of the cycle), never more than batch_size_, and those jobs have left
\* the queue.
C3_FlushAtMostBatch ==
    LET cap == IF wloc.held < batch_size_ THEN wloc.held ELSE batch_size_
    IN /\ wpc = "flush" => FlushedInCycle <= cap
       /\ wpc = "deletion" =>
            /\ FlushedInCycle = 0 \/ FlushedInCycle = cap
            /\ FlushedInCycle <= batch_size_
            /\ Len(addition_jobs_) = wloc.held - FlushedInCycle

\* C3 witness: a cycle entered with batch_size_ + 1 queued jobs has flushed
\* exactly batch_size_ and left one
C3_Witness ==
    /\ wpc = "deletion"
    /\ wloc.held = batch_size_ + 1
    /\ FlushedInCycle = batch_size_
    /\ Len(addition_jobs_) = 1

\* C4: once terminate_processing has joined the worker, no record is handed
\* to add_index and process_deletion_jobs is not run any more, whatever is
\* pushed or handed to remove_index_delay afterwards.
C4_NoDrainAfterTerminate ==
    [][joined => /\ immediate_log' = immediate_log
                 /\ deletion_log' = deletion_log
                 /\ wpc' = wpc]_vars

\* C4 witness: after the join the queue is longer than batch_size_, the store
\* reports deletion jobs ready and batch_interval_ has elapsed
C4_Witness ==
    /\ joined
    /\ pc[1] = "idle"
    /\ Len(addition_jobs_) > batch_size_
    /\ deletion_jobs_ready
    /\ interval_elapsed

\* positions inside terminate_processing
TpPcs == {"tp_lock", "tp_set", "tp_notify", "tp_joinable", "tp_join"}

\* C5: every call of terminate_processing returns, wherever the worker is when
\* should_stop_ is set and cv_ is notified; and a call made after the worker
\* has been joined skips the join and returns.
C5_TerminateReturns ==
    /\ (pc[1] \in TpPcs) ~> (pc[1] = "idle")
    /\ [][(joined /\ pc[1] = "tp_joinable" /\ pc'[1] # pc[1]) => pc'[1] = "idle"]_vars

\* C5 witness: a second call, made after the first one joined the worker, is at
\* the joinable test
C5_Witness ==
    /\ joined
    /\ pc[1] = "tp_joinable"
    /\ ret[1].op = "terminate_processing"

\* a record leaves addition_jobs_ only from the front and only into add_index
C6_LeavesOnlyByFlush ==
    addition_jobs_' # addition_jobs_ =>
        \/ /\ addition_jobs_ # <<>>
           /\ addition_jobs_' = Tail(addition_jobs_)
           /\ immediate_log' = Append(immediate_log, Head(addition_jobs_))
        \/ /\ Len(addition_jobs_') = Len(addition_jobs_) + 1
           /\ SubSeq(addition_jobs_', 1, Len(addition_jobs_)) = addition_jobs_
           /\ immediate_log' = immediate_log

\* C6: unless stop is requested, every record pushed by add_index_delay is
\* handed to add_index by the worker in the end: the queue is first-in
\* first-out, records leave it only into add_index, and whenever it holds
\* records it is drained later (by the wake-up past batch_size_ or by the
\* poll once batch_interval_ has elapsed).
C6_PushedIsFlushed ==
    /\ (addition_jobs_ # <<>>) ~> (addition_jobs_ = <<>> \/ should_stop_)
    /\ [][C6_LeavesOnlyByFlush]_vars

\* C6 witness: without a stop request, a cycle entered with more than
\* batch_size_ queued jobs flushed batch_size_ of them, and a later cycle,
\* entered after batch_interval_ had elapsed, is flushing the rest
C6_Witness ==
    /\ ~should_stop_
    /\ wpc = "flush"
    /\ wloc.held = MaxLiveIds - 1
    /\ wloc.logged = batch_size_
    /\ wloc.i = wloc.batch
    /\ addition_jobs_ = <<>>

StrictlyIncreasing(s) == \A i, j \in 1..Len(s) : i < j => s[i] < s[j]

\* the records of the Pending Buffer that have not been handed on
Unforwarded == SelectSeq(records_, LAMBDA r : ~r.moved)

\* C7: within each lane records reach the store in insertion order (record ids
\* are given out in the order of the calls of a lane's client): the ids handed
\* to add_index, followed by those still in addition_jobs_, are strictly
\* increasing, and so are the ids run_scheduled_task handed to add_index_delay
\* followed by those still in records_.
C7_InsertionOrder ==
    /\ StrictlyIncreasing(IdsOf(immediate_log) \o IdsOf(addition_jobs_))
    /\ StrictlyIncreasing(IdsOf(delayed_log) \o IdsOf(Unforwarded))

\* C7 witness: every lane has handed at least two records to the store
C7_Witness ==
    /\ Len(immediate_log) >= 2
    /\ Len(delayed_log) >= 2
    /\ nextId = MaxOrderIds + 1

\* no call is under way
Quiescent == \A t \in Callers : pc[t] = "idle"

\* how often record k has been handed to add_index_delay
Forwarded(k) == Cardinality({j \in 1..Len(delayed_log) : delayed_log[j].id = k})

\* C8: with several threads inserting into and draining the Pending Buffer, no
\* record is handed to add_index_delay twice, none is lost (a record inserted
\* is in records_ or has been handed on), and whenever no call is under way
\* record_size() plus the number of records drained is the number inserted
\* (stated of the runs in which nothing undefined has been executed and the
\* process is up).
C8_NoDuplicateNoLoss ==
    health = "ok" =>
        /\ \A k \in 1..MaxRaceIds : Forwarded(k) <= 1
        /\ \A k \in 1..Inserted :
               Forwarded(k) > 0 \/ \E j \in 1..Len(records_) : records_[j].id = k
        /\ Quiescent => Len(records_) + Len(delayed_log) = nextId - 1

\* ignored_event reaches the call of path_match_type at line 63
ReachesPathMatch(t) ==
    /\ pc[t] = "ignored_event"
    /\ ~ends_with(PathText(loc[t].arg), LongnameSuffix)
    /\ loc[t].i = 0

\* positions whose next step reads or writes records_, addition_jobs_ or
\* should_stop_, or calls into mnt_manager_ or index_manager_
AccessPcs ==
    RecordsPcs \cup MountOps
        \cup {"rst_fwd", "tp_set", "set_index_change_filter", "add_index_delay",
              "remove_index_delay", "search_store", "removePath", "hasLFT", "addPath_store"}

\* C9: every access to the Pending Buffer, the queue of addition jobs and
\* should_stop_, and every call into mnt_manager_ and index_manager_, is made
\* by a thread that holds mtx_.
C9_AllUnderMutex ==
    /\ \A t \in Callers : (pc[t] \in AccessPcs \/ ReachesPathMatch(t)) => mtx_ = t
    /\ wpc \in {"eat", "flush", "deletion"} => mtx_ = Worker

\* the step in which addPath returns because no record could be generated
GenerationFails(t) == pc[t] = "addPath" /\ pc'[t] = "idle"

\* C10: an addPath whose record generation fails returns false and changes
\* nothing: no step of the call touches the store, the value of
\* document_exists or the two queues.
C10_FailedAddPathChangesNothing ==
    [][\A t \in Callers :
          /\ GenerationFails(t) =>
                /\ ret'[t] = [op |-> "addPath", val |-> "false", n |-> 0]
                /\ UNCHANGED <<records_, addition_jobs_, mtx_, storeVars>>
                /\ \A p \in Paths : (p \in docs') = document_exists(p)
          /\ (pc[t] = "idle" /\ pc'[t] = "addPath") =>
                UNCHANGED <<records_, addition_jobs_, mtx_, storeVars>>]_vars

\* C10 witness: addPath has returned false although no addPath has handed a
\* record to the store, while the index holds a document and both queues hold
\* records
C10_Witness ==
    /\ pc[1] = "idle"
    /\ ret[1] = [op |-> "addPath", val |-> "false", n |-> 0]
    /\ delayed_log = <<>>
    /\ docs # {}
    /\ addition_jobs_ # <<>>
    /\ records_ # <<>>

\* the step in which addPath returns after its record was generated
AddPathSucceeds(t) == pc[t] = "addPath_store" /\ pc'[t] = "idle"

\* C11: an addPath whose record generation succeeds returns true, and
\* document_exists(path) is true when it returns.
C11_AddPathReturnsTrue ==
    [][\A t \in Callers :
          AddPathSucceeds(t) =>
              /\ ret'[t].val = "true"
              /\ loc[t].arg \in docs']_vars

\* the step in which removePath returns
RemovePathReturns(t) == pc[t] = "removePath" /\ pc'[t] = "idle"

\* C12: removePath issues the removal and returns the negation of
\* document_exists(path) read under the same lock, so the path is not in the
\* index when the call returns (the return value is true), also when records
\* of the same path wait in the store's delayed additions, in addition_jobs_
\* or in records_.
C12_RemovePathRemoves ==
    [][\A t \in Callers :
          RemovePathReturns(t) =>
              /\ mtx_ = t
              /\ docs' = docs \ {loc[t].arg}
              /\ ret'[t] = [op |-> "removePath", val |-> Bool(loc[t].arg \notin docs'), n |-> 0]
              /\ ret'[t].val = "true"
              /\ UNCHANGED <<delayed_log, immediate_log, deletion_jobs_, deletion_log>>]_vars

\* C12 witness: removePath has returned true for a path that was in the index
\* and of which records wait in the store's delayed additions, in
\* addition_jobs_ and in records_
C12_Witness ==
    /\ pc[1] = "idle"
    /\ ret[1] = [op |-> "removePath", val |-> "true", n |-> 0]
    /\ \E q \in Paths :
           /\ q \notin docs
           /\ \E j \in 1..Len(immediate_log) : immediate_log[j].path = q
           /\ \E j \in 1..Len(delayed_log) : delayed_log[j].path = q
           /\ \E j \in 1..Len(addition_jobs_) : addition_jobs_[j].path = q
           /\ \E j \in 1..Len(records_) : records_[j].path = q

\* C13: search with offset < 0 returns the empty list without taking mtx_ and
\* without calling the store; with offset >= 0 it takes mtx_, calls
\* index_manager_.search once with the lock held and returns what it yields.
C13_SearchOffset ==
    [][\A t \in Callers :
          /\ (pc[t] = "search" /\ pc'[t] # pc[t]) =>
                IF loc[t].arg < 0
                THEN /\ pc'[t] = "idle"
                     /\ ret'[t] = [op |-> "search", val |-> "empty", n |-> 0]
                     /\ UNCHANGED <<mtx_, storeVars>>
                ELSE /\ pc'[t] = "search_lock"
                     /\ UNCHANGED <<mtx_, storeVars, ret>>
          /\ (pc'[t] = "search_lock" /\ pc'[t] # pc[t]) => (pc[t] = "search" /\ loc[t].arg >= 0)
          /\ (pc'[t] = "search_store" /\ pc'[t] # pc[t]) =>
                (pc[t] = "search_lock" /\ mtx_ = Free /\ mtx_' = t)
          /\ (pc[t] = "search_store" /\ pc'[t] # pc[t]) =>
                /\ mtx_ = t
                /\ pc'[t] = "idle"
                /\ ret'[t] = [op |-> "search", val |-> "results", n |-> Cardinality(docs)]
                /\ UNCHANGED storeVars]_vars

\* C13 witness: search has returned the empty list while the worker held mtx_
C13_Witness ==
    /\ pc[1] = "idle"
    /\ ret[1] = [op |-> "search", val |-> "empty", n |-> 0]
    /\ mtx_ = Worker

\* C14: ignored_event(path, ignored) is true when path ends with ".longname";
\* otherwise, when ignored is false, it is path_match_type(path, "fuse.dlnfs");
\* otherwise it is false, whatever the mount table holds.
C14_IgnoredEvent ==
    [][\A t \in Callers :
          (pc[t] = "ignored_event" /\ pc'[t] # pc[t]) =>
              LET suffix == ends_with(PathText(loc[t].arg), LongnameSuffix)
                  preceding == loc[t].i = 1
              IN /\ pc'[t] = "idle"
                 /\ ret'[t].op = "ignored_event"
                 /\ suffix => ret'[t].val = "true"
                 /\ (~suffix /\ ~preceding) =>
                        (ret'[t].val = "true") = (loc[t].arg \in mnt_.dlnfs)
                 /\ (~suffix /\ preceding) => ret'[t].val = "false"
                 /\ UNCHANGED <<mnt_, mtx_>>]_vars

\* C14 witness: ignored_event has returned false although every path lies on
\* a fuse.dlnfs mount (the path has no suffix and the preceding event was
\* ignored)
C14_Witness ==
    /\ pc[1] = "idle"
    /\ ret[1] = [op |-> "ignored_event", val |-> "false", n |-> 0]
    /\ mnt_.dlnfs = Paths

\* positions of the worker in wait_for (Waiting) and in eat_jobs (Draining)
WaitingPcs == {"lock", "waiting", "woken", "timedout"}
DrainingPcs == {"eat", "flush", "deletion"}

\* C15: whenever the worker leaves the wait, by the wake condition (stop
\* included) or by the timeout, it enters eat_jobs before it waits again or
\* stops; it stops only out of eat_jobs, and stays stopped.
C15_DrainBeforeStop ==
    [][/\ (wpc \in WaitingPcs /\ wpc' \notin WaitingPcs) => wpc' = "eat"
       /\ (wpc' = "done" /\ wpc # "done") => wpc \in DrainingPcs
       /\ wpc = "done" => wpc' = "done"]_vars

\* C15 as amended: whenever the worker leaves the wait it enters eat_jobs,
\* unless stop has been requested: then it stops at once, without a drain
\* attempt.  It stops only out of the wait, never out of eat_jobs, eat_jobs
\* always leads back to the wait, and the stopped worker stays stopped.
C15_DrainUnlessStop ==
    [][/\ (wpc \in WaitingPcs /\ wpc' \notin WaitingPcs) =>
             IF should_stop_ THEN wpc' = "done" ELSE wpc' = "eat"
       /\ (wpc' = "done" /\ wpc # "done") => (wpc \in WaitingPcs /\ should_stop_)
       /\ (wpc \in DrainingPcs /\ wpc' \notin DrainingPcs) => wpc' = "lock"
       /\ wpc = "done" => wpc' = "done"]_vars

\* C15 witness: the worker has stopped on the stop request while addition
\* jobs and ready deletion jobs were left behind
C15_Witness ==
    /\ wpc = "done"
    /\ should_stop_
    /\ addition_jobs_ # <<>>
    /\ deletion_jobs_ready

\* positions at which a caller waits for mtx_, and those at which it holds it
BlockedPcs == LockPcs \cup {"tp_lock", "rst_lock"}
HoldingPcs ==
    {"rst_fwd", "tp_set", "set_index_change_filter", "add_index_delay", "remove_index_delay",
     "search_store", "removePath", "hasLFT", "addPath_store"}

\* mtx_ is held exactly by a thread inside one of the critical sections, so
\* no thread that holds it waits for it
HeldInsideOnly ==
    /\ \A t \in Callers : (mtx_ = t) = (pc[t] \in HoldingPcs)
    /\ (mtx_ = Worker) = (wpc \in DrainingPcs)

\* C19: there is no deadlock.  mtx_ is held only inside a critical section,
\* whoever holds it releases it, a caller that waits for it gets it, and every
\* call returns.
C19_NoDeadlock ==
    /\ []HeldInsideOnly
    /\ (mtx_ # Free) ~> (mtx_ = Free)
    /\ \A t \in Callers : (pc[t] \in BlockedPcs) ~> (mtx_ = t)
    /\ \A t \in Callers : (pc[t] # "idle") ~> (pc[t] = "idle")

\* C19 witness: a caller waits for mtx_ while the worker, in the middle of
\* eat_jobs, holds it
C19_Witness ==
    /\ pc[1] \in BlockedPcs
    /\ mtx_ = Worker
    /\ wpc = "flush"

\* a step that is not the worker's
NotWorkerStep == wpc' = wpc /\ wloc' = wloc

\* what a step taken while the worker is in eat_jobs does
DrainStep ==
    wpc \in DrainingPcs =>
        /\ should_stop_' = should_stop_
        /\ NotWorkerStep => UNCHANGED <<addition_jobs_, docs, immediate_log, deletion_jobs_,
                                        deletion_log, delayed_log>>
        /\ (wpc = "flush" /\ wpc' # "flush") =>
               (wpc' = "deletion" /\ FlushedInCycle = wloc.batch)
        /\ wpc' \in (DrainingPcs \cup {"lock"})

\* C16: a cycle of eat_jobs is atomic for the operations that take mtx_.
\* While the worker is in eat_jobs it holds mtx_ and no caller is inside a
\* critical section; no step of another thread changes should_stop_,
\* addition_jobs_ or the store; and the worker leaves the flush loop only
\* with the whole batch handed to add_index, and eat_jobs only towards the wait.
C16_DrainAtomic ==
    /\ [](wpc \in DrainingPcs =>
             /\ mtx_ = Worker
             /\ \A t \in Callers : pc[t] \notin HoldingPcs)
    /\ [][DrainStep]_vars

\* C16 witness: in the middle of a batch of two, terminate_processing and
\* hasLFT wait for mtx_
C16_Witness ==
    /\ wpc = "flush"
    /\ wloc.batch = 2
    /\ wloc.i = 1
    /\ pc[1] = "tp_lock"
    /\ pc[2] = "has_lock"

\* positions inside search, removePath, hasLFT and addPath
PathOpPcs ==
    {"search", "search_lock", "search_store", "rp_lock", "removePath", "has_lock", "hasLFT",
     "addPath", "ap_lock", "addPath_store"}

\* C20: no step of search, removePath, hasLFT or addPath changes records_ or
\* addition_jobs_ or wakes the worker; addPath hands its record to the store's
\* add_index_delay; addition_jobs_ gets longer only by one record in
\* add_index_delay and shorter only by the worker's flush.
C20_PathOpsFrame ==
    [][/\ \A t \in Callers :
             /\ (pc'[t] # pc[t] /\ (pc[t] \in PathOpPcs \/ pc'[t] \in PathOpPcs)) =>
                    UNCHANGED <<records_, addition_jobs_, wpc>>
             /\ AddPathSucceeds(t) => delayed_log' = Append(delayed_log, loc[t].rec)
       /\ Len(addition_jobs_') > Len(addition_jobs_) =>
             \E t \in Callers :
                 /\ pc[t] = "add_index_delay"
                 /\ pc'[t] = "idle"
                 /\ addition_jobs_' = Append(addition_jobs_, loc[t].rec)
       /\ Len(addition_jobs_') < Len(addition_jobs_) =>
             (wpc = "flush" /\ addition_jobs_' = Tail(addition_jobs_))]_vars

\* C20 witness: addPath has handed a record to the store and returned while
\* the worker sleeps in wait_for and addition_jobs_ holds a record
C20_Witness ==
    /\ pc[1] = "idle"
    /\ ret[1].op = "addPath"
    /\ delayed_log # <<>>
    /\ addition_jobs_ # <<>>
    /\ wpc = "waiting"

\* what the last step of a cycle of eat_jobs does to the deletion jobs, and
\* that no other step processes them
DeletionStep ==
    /\ (wpc = "deletion" /\ wpc' # "deletion") =>
          IF deletion_jobs_ready
          THEN /\ deletion_log' = deletion_log \o deletion_jobs_
               /\ deletion_jobs_' = <<>>
          ELSE UNCHANGED <<deletion_log, deletion_jobs_>>
    /\ deletion_log' # deletion_log => wpc = "deletion"

\* C17: every cycle of eat_jobs calls process_deletion_jobs exactly when
\* deletion_jobs_ready() holds at that point, with or without a flush in the
\* same cycle; and unless stop is requested, deletion jobs that are ready are
\* processed in the end.
C17_DeletionJobs ==
    /\ [][DeletionStep]_vars
    /\ deletion_jobs_ready ~> (~deletion_jobs_ready \/ should_stop_)

\* C17 witness: without a stop request the deletion jobs have been processed
\* although no addition job has been flushed
C17_Witness ==
    /\ ~should_stop_
    /\ Len(deletion_log) = DeletionBatch
    /\ immediate_log = <<>>
    /\ addition_jobs_ # <<>>

\* C18: run_scheduled_task never reads the front of an empty records_ and
\* never pops from it, however its invocations and insert_pending_records
\* interleave.
C18_NeverEmptyFront ==
    \A t \in Callers : pc[t] \in {"rst_fwd", "rst_pop"} => records_ # <<>>
====
